---- MODULE Spec2Model ----
(***************************************************************************)
(* A model of package injector (github.com/lsl/injector): the type-keyed   *)
(* resolver registry, Inject's precompiled argument resolvers, the Router  *)
(* with its middleware chain, and the type-keyed context helpers.          *)
(*                                                                         *)
(* A panic is modelled as the "panic" field of the record `last`, which    *)
(* describes the operation that has just run; an operation that panics     *)
(* leaves every piece of program state it had not yet written unchanged.   *)
(***************************************************************************)
EXTENDS Integers, Sequences, FiniteSets, TLC

(***************************************************************************)
(* Bounds of the model.                                                    *)
(***************************************************************************)
\* values 1..MaxVal that can be registered or stored (0 is the zero value)
MaxVal == 1
\* number of handlers returned by Inject that the program keeps
MaxHandlers == 1
\* number of contexts derived from context.Background()
MaxCtx == 2
\* number of middlewares registered on the Router
MaxMiddleware == 2

(***************************************************************************)
(* Types and reflection.                                                   *)
(***************************************************************************)
\* the types of the model: *http.Request, http.ResponseWriter (an interface),
\* a struct type User, its pointer type *User and a second interface type
Request == "*http.Request"
ResponseWriter == "http.ResponseWriter"
User == "main.User"
PtrUser == "*main.User"
Stringer == "fmt.Stringer"

Types == {Request, ResponseWriter, User, PtrUser, Stringer}

\* the type arguments the program registers resolvers for
RegTypes == {User, PtrUser, Stringer}

\* reflect.TypeOf(nil interface value) is the nil reflect.Type
NilType == "<nil>"

Kind(t) ==
  CASE t = Request -> "ptr"
    [] t = PtrUser -> "ptr"
    [] t = User -> "struct"
    [] OTHER -> "interface"

\* reflect.Type.Elem of a pointer type
Elem(t) ==
  CASE t = Request -> "http.Request"
    [] t = PtrUser -> User
    [] OTHER -> t

\* reflect.TypeOf(zero) for `var zero T`: the zero value of an interface type is
\* the nil interface, whose reflect.TypeOf is nil; any other T gives T itself
TypeOfZero(T) == IF Kind(T) = "interface" THEN NilType ELSE T

(***************************************************************************)
(* Values.                                                                 *)
(***************************************************************************)
Values == 1..MaxVal
\* `var zero T`
Zero == 0
\* the live requests and the response writers of the inbound calls
Requests == {1, 2}
Writers == {1, 2}
\* the user functions func(*http.Request) T handed to RegisterResolver
UserFnIds == {1}
\* the placeholder request Middleware builds with http.NewRequest
dummyReq == 0

\* the functions a program hands to RegisterResolver: RegisterStatic's closure
\* over val, or a user function of the request
StaticFn(T, val) == [T |-> T, static |-> TRUE, id |-> val]
UserFn(T, id) == [T |-> T, static |-> FALSE, id |-> id]

\* fn(r): the closure of RegisterStatic returns val whatever the request is;
\* a user function's result is identified by the function and the request
CallFn_IgnoresVal(fn, r) == [type |-> fn.T, by |-> "static", id |-> 0, req |-> 0]
CallFn(fn, r) ==
  IF fn.static
    THEN [type |-> fn.T, by |-> "static", id |-> fn.id, req |-> 0]
    ELSE [type |-> fn.T, by |-> "fn", id |-> fn.id, req |-> r]

VARIABLES
  injectors,   \* the registry: reflect.Type -> Injector
  wrapped,     \* the http.HandlerFuncs Inject has returned
  middleware,  \* Router.middleware
  mux,         \* Router.mux: pattern -> registered handler
  ctxs,        \* the contexts derived with WithValue
  last         \* the operation that has just run and its outcome

vars == <<injectors, wrapped, middleware, mux, ctxs, last>>

NoOp == [op |-> "none", panic |-> "none"]

(***************************************************************************)
(* The registry.                                                           *)
(***************************************************************************)
\* injectors[t] = func(r) any { return fn(r) }
MapPut(m, k, v) == [x \in DOMAIN m \cup {k} |-> IF x = k THEN v ELSE m[x]]

\* RegisterResolver[T](fn): the registry after the call and how the call ended.
\* On a duplicate the panic argument "..." + t.String() is evaluated first, and
\* String on the nil reflect.Type is a nil dereference.
RegisterResolverResult(reg, T, fn) ==
  LET t == TypeOfZero(T)
      exists == t \in DOMAIN reg
  IN  IF exists
        THEN [injectors |-> reg, exists |-> TRUE,
              panic |-> IF t = NilType THEN "nil dereference"
                        ELSE "injector already registered"]
        ELSE [injectors |-> MapPut(reg, t, fn), exists |-> FALSE, panic |-> "none"]

RegisterResolver ==
  \E T \in RegTypes, id \in UserFnIds :
    LET res == RegisterResolverResult(injectors, T, UserFn(T, id))
    IN  /\ injectors' = res.injectors
        /\ last' = [op |-> "RegisterResolver", T |-> T, fn |-> UserFn(T, id),
                    exists |-> res.exists, panic |-> res.panic]
        /\ UNCHANGED <<wrapped, middleware, mux, ctxs>>

RegisterStatic ==
  \E T \in RegTypes, val \in Values :
    LET res == RegisterResolverResult(injectors, T, StaticFn(T, val))
    IN  /\ injectors' = res.injectors
        /\ last' = [op |-> "RegisterStatic", T |-> T, fn |-> StaticFn(T, val),
                    exists |-> res.exists, panic |-> res.panic]
        /\ UNCHANGED <<wrapped, middleware, mux, ctxs>>

(***************************************************************************)
(* Inject.                                                                 *)
(***************************************************************************)
\* the values a program hands to Inject: functions, given by their parameter
\* types in declared order, and a value that is no function
Func(in) == [kind |-> "func", in |-> in]
NotAFunc == [kind |-> "int", in |-> << >>]
HandlerFns ==
  { Func(<< >>),
    Func(<<ResponseWriter, Request>>),
    Func(<<ResponseWriter, Request, User>>),
    Func(<<PtrUser, Request, PtrUser>>),
    Func(<<User, PtrUser>>),
    Func(<<Stringer>>),
    NotAFunc }

\* the zero Injector, a nil func
NoInjector == [T |-> NilType, static |-> TRUE, id |-> 0]

\* resolvers[i], one case of the switch on t.In(i)
FromRequest == [kind |-> "request", injector |-> NoInjector]
FromWriter == [kind |-> "writer", injector |-> NoInjector]
FromInjector(inj) == [kind |-> "injector", injector |-> inj]

\* injector, ok := injectors[param]
Lookup(reg, param) == IF param \in DOMAIN reg THEN reg[param] ELSE NoInjector

Resolver(reg, param) ==
  CASE param = Request -> FromRequest
    [] param = ResponseWriter -> FromWriter
    [] OTHER -> FromInjector(Lookup(reg, param))

\* the parameter positions at which the default case finds no injector
Missing(reg, in) ==
  {i \in 1..Len(in) : in[i] \notin {Request, ResponseWriter} /\ in[i] \notin DOMAIN reg}

\* Inject(fn): how it ended and the handler it returned
NoHandler == [fn |-> NotAFunc, resolvers |-> << >>]
InjectResult_NoCheck(reg, fn) ==
  IF fn.kind # "func"
    THEN [panic |-> "expected a function", handler |-> NoHandler]
    ELSE [panic |-> "none",
          handler |-> [fn |-> fn,
                       resolvers |-> [i \in 1..Len(fn.in) |-> Resolver(reg, fn.in[i])]]]
InjectResult(reg, fn) ==
  IF fn.kind # "func"
    THEN [panic |-> "expected a function", handler |-> NoHandler]
  ELSE IF Missing(reg, fn.in) # {}
    THEN [panic |-> "no injector", handler |-> NoHandler]
  ELSE [panic |-> "none",
        handler |-> [fn |-> fn,
                     resolvers |-> [i \in 1..Len(fn.in) |-> Resolver(reg, fn.in[i])]]]

Inject ==
  \E fn \in HandlerFns :
    LET res == InjectResult(injectors, fn)
    IN  /\ res.panic = "none" => Cardinality(wrapped \cup {res.handler}) <= MaxHandlers
        /\ wrapped' = IF res.panic = "none" THEN wrapped \cup {res.handler} ELSE wrapped
        /\ last' = [op |-> "Inject", fn |-> fn, handler |-> res.handler, panic |-> res.panic]
        /\ UNCHANGED <<injectors, middleware, mux, ctxs>>

(***************************************************************************)
(* The handler Inject returns.                                             *)
(***************************************************************************)
\* resolver(w, r): the argument one compiled resolver yields
Arg(resolver, w, r) ==
  CASE resolver.kind = "request" -> [type |-> Request, by |-> "request", id |-> 0, req |-> r]
    [] resolver.kind = "writer" -> [type |-> ResponseWriter, by |-> "writer", id |-> 0, req |-> w]
    [] OTHER -> CallFn(resolver.injector, r)

\* the first position whose injector is a nil func, 0 if there is none
FirstNil(resolvers) ==
  LET nil == {i \in 1..Len(resolvers) :
                resolvers[i].kind = "injector" /\ resolvers[i].injector = NoInjector}
  IN  IF nil = {} THEN 0 ELSE CHOOSE i \in nil : \A j \in nil : i <= j

\* func(w, r): the resolvers run in order, each once, then v.Call(args) once.
\* evals lists the injector calls made (position, request); calls lists the
\* argument lists the original function was invoked with.
InjectorEvals(resolvers, n, r) ==
  LET pos == {i \in 1..n : resolvers[i].kind = "injector"}
      F[k \in 0..n] ==
        IF k = 0 THEN << >>
        ELSE IF k \in pos THEN Append(F[k - 1], [pos |-> k, req |-> r]) ELSE F[k - 1]
  IN  F[n]

Serve_ArgsReversed(h, w, r) ==
  [panic |-> "none",
   evals |-> InjectorEvals(h.resolvers, Len(h.resolvers), r),
   lookups |-> << >>,
   calls |-> << [i \in 1..Len(h.resolvers) |->
                   Arg(h.resolvers[Len(h.resolvers) + 1 - i], w, r)] >>]
\* a handler that finds its injectors in the registry on every call
Serve_LooksUpRegistry(h, w, r) ==
  [panic |-> "none",
   evals |-> InjectorEvals(h.resolvers, Len(h.resolvers), r),
   lookups |-> [i \in 1..Len(h.fn.in) |-> h.fn.in[i]],
   calls |-> << [i \in 1..Len(h.fn.in) |-> Arg(Resolver(injectors, h.fn.in[i]), w, r)] >>]
\* lookups lists the reads of the injectors map the call makes: the closure
\* refers to resolvers and v alone
Serve(h, w, r) ==
  LET nil == FirstNil(h.resolvers)
  IN  IF nil # 0
        THEN [panic |-> "nil dereference",
              evals |-> InjectorEvals(h.resolvers, nil - 1, r),
              lookups |-> << >>,
              calls |-> << >>]
        ELSE [panic |-> "none",
              evals |-> InjectorEvals(h.resolvers, Len(h.resolvers), r),
              lookups |-> << >>,
              calls |-> << [i \in 1..Len(h.resolvers) |-> Arg(h.resolvers[i], w, r)] >>]

HandlerFunc ==
  \E h \in wrapped, w \in Writers, r \in Requests :
    LET res == Serve(h, w, r)
    IN  /\ last' = [op |-> "HandlerFunc", handler |-> h, w |-> w, r |-> r,
                    evals |-> res.evals, lookups |-> res.lookups,
                    calls |-> res.calls, panic |-> res.panic]
        /\ UNCHANGED <<injectors, wrapped, middleware, mux, ctxs>>

(***************************************************************************)
(* Context helpers.                                                        *)
(***************************************************************************)
\* the type arguments the program stores and looks up context values with
CtxTypes == {User, PtrUser, Stringer}

\* context.Background(); the contexts derived from it are 1..Len(ctxs)
Background == 0

\* ctx.Value finds nothing: the nil interface
NoValue == [type |-> NilType, val |-> Zero]

\* contextKey[T](): the key, or the nil dereference of Kind on the nil
\* reflect.Type when T is an interface type; a pointer type is stripped to
\* its element type before String()
contextKey(T) ==
  LET t == TypeOfZero(T)
  IN  IF t = NilType
        THEN [panic |-> "nil dereference", key |-> ""]
        ELSE [panic |-> "none", key |-> IF Kind(t) = "ptr" THEN Elem(t) ELSE t]

\* context.WithValue(ctx, key, val): a new context whose parent is ctx
ContextWithValue_InPlace(cs, ctx, key, val) ==
  IF ctx = Background
    THEN Append(cs, [parent |-> ctx, key |-> key, val |-> val])
    ELSE Append([cs EXCEPT ![ctx] = [parent |-> cs[ctx].parent, key |-> key, val |-> val]],
                [parent |-> ctx, key |-> key, val |-> val])
ContextWithValue(cs, ctx, key, val) ==
  Append(cs, [parent |-> ctx, key |-> key, val |-> val])

\* ctx.Value(key): the value of the nearest context of the chain with that key
RECURSIVE ContextValue(_, _, _)
ContextValue(cs, ctx, key) ==
  IF ctx = Background THEN NoValue
  ELSE IF cs[ctx].key = key THEN cs[ctx].val
  ELSE ContextValue(cs, cs[ctx].parent, key)

\* WithValue[T](ctx, val)
WithValue ==
  \E ctx \in 0..Len(ctxs), T \in CtxTypes, val \in {Zero} \cup Values :
    LET k == contextKey(T)
    IN  /\ k.panic = "none" => Len(ctxs) < MaxCtx
        /\ ctxs' = IF k.panic = "none"
                     THEN ContextWithValue(ctxs, ctx, k.key, [type |-> T, val |-> val])
                     ELSE ctxs
        /\ last' = [op |-> "WithValue", ctx |-> ctx, T |-> T, val |-> val,
                    ret |-> IF k.panic = "none" THEN Len(ctxs) + 1 ELSE Background,
                    panic |-> k.panic]
        /\ UNCHANGED <<injectors, wrapped, middleware, mux>>

\* Use[T](ctx) and Try[T](ctx): v.(T) panics unless the dynamic type of v is T
Lookup_Result(cs, ctx, T, missing) ==
  LET k == contextKey(T)
      v == ContextValue(cs, ctx, k.key)
  IN  IF k.panic # "none" THEN [panic |-> k.panic, val |-> Zero, ok |-> FALSE]
      ELSE IF v = NoValue THEN [panic |-> missing, val |-> Zero, ok |-> FALSE]
      ELSE IF v.type # T THEN [panic |-> "type assertion", val |-> Zero, ok |-> FALSE]
      ELSE [panic |-> "none", val |-> v.val, ok |-> TRUE]

UseResult(cs, ctx, T) == Lookup_Result(cs, ctx, T, "missing context value")
TryResult(cs, ctx, T) == Lookup_Result(cs, ctx, T, "none")

Use ==
  \E ctx \in 0..Len(ctxs), T \in CtxTypes :
    LET res == UseResult(ctxs, ctx, T)
    IN  /\ last' = [op |-> "Use", ctx |-> ctx, T |-> T,
                    val |-> res.val, ok |-> res.ok, panic |-> res.panic]
        /\ UNCHANGED <<injectors, wrapped, middleware, mux, ctxs>>

Try ==
  \E ctx \in 0..Len(ctxs), T \in CtxTypes :
    LET res == TryResult(ctxs, ctx, T)
    IN  /\ last' = [op |-> "Try", ctx |-> ctx, T |-> T,
                    val |-> res.val, ok |-> res.ok, panic |-> res.panic]
        /\ UNCHANGED <<injectors, wrapped, middleware, mux, ctxs>>

(***************************************************************************)
(* Middleware and the Router.                                              *)
(***************************************************************************)
\* the values a program hands to Router.Use and Middleware: a raw
\* func(http.Handler) http.Handler, or a function returning one, given by its
\* parameter types; both run their own code and then call next.ServeHTTP
RawMw(name) == [kind |-> "raw", name |-> name, in |-> << >>]
MwFunc(name, in) == [kind |-> "mwfunc", name |-> name, in |-> in]
MiddlewareArgs ==
  { RawMw("A"), RawMw("B"), MwFunc("C", <<PtrUser>>), MwFunc("D", <<User, Request>>),
    Func(<<ResponseWriter, Request>>) }

\* Middleware(fn): how it ended and the func(http.Handler) http.Handler it
\* returned, which holds fn and the precompiled resolvers; every parameter
\* type is looked up in the registry, *http.Request included. evals lists the
\* injector calls made: Middleware itself calls none.
NoMiddleware == [kind |-> "none", name |-> "", resolvers |-> << >>]
MiddlewareResult(reg, fn) ==
  IF fn.kind # "mwfunc"
    THEN [panic |-> "middleware must be a function returning one value",
          mw |-> NoMiddleware, evals |-> << >>]
  ELSE IF \E i \in 1..Len(fn.in) : fn.in[i] \notin DOMAIN reg
    THEN [panic |-> "no injector for middleware param", mw |-> NoMiddleware, evals |-> << >>]
  ELSE [panic |-> "none", evals |-> << >>,
        mw |-> [kind |-> "injected", name |-> fn.name,
                resolvers |-> [i \in 1..Len(fn.in) |-> Lookup(reg, fn.in[i])]]]

\* Router.Use(mw): the type switch on mw
UseResult_Router(reg, mw) ==
  IF mw.kind = "raw"
    THEN [panic |-> "none", evals |-> << >>,
          mw |-> [kind |-> "raw", name |-> mw.name, resolvers |-> << >>]]
    ELSE MiddlewareResult(reg, mw)

RouterUse ==
  \E mw \in MiddlewareArgs :
    LET res == UseResult_Router(injectors, mw)
    IN  /\ res.panic = "none" => Len(middleware) < MaxMiddleware
        /\ middleware' = IF res.panic = "none" THEN Append(middleware, res.mw) ELSE middleware
        /\ last' = [op |-> "Use", mw |-> mw, evals |-> res.evals, panic |-> res.panic]
        /\ UNCHANGED <<injectors, wrapped, mux, ctxs>>

\* an http.Handler: the middlewares a request passes through, outermost
\* first, around the innermost handler
Bare(h) == [chain |-> << >>, inner |-> h]

\* mw(next): next wrapped in one middleware. The func Middleware returned
\* first calls its resolvers with the placeholder request and fn with the
\* results; args are the values the middleware instance holds, evals the
\* injector calls made to get them.
ApplyMiddleware(mw, next) ==
  [chain |-> << [name |-> mw.name,
                 args |-> [i \in 1..Len(mw.resolvers) |-> CallFn(mw.resolvers[i], dummyReq)],
                 evals |-> [i \in 1..Len(mw.resolvers) |->
                              [mw |-> mw.name, pos |-> i, req |-> dummyReq]]] >>
             \o next.chain,
   inner |-> next.inner]

\* the injector calls made while a handler was wrapped, in the order of the
\* loop: the last registered middleware is applied first
ChainEvals(h) ==
  LET n == Len(h.chain)
      F[k \in 0..n] == IF k = 0 THEN << >> ELSE F[k - 1] \o h.chain[n + 1 - k].evals
  IN  F[n]

\* for i := len(r.middleware) - 1; i >= 0; i-- { h = r.middleware[i](h) }
WrapAll_Forward(mws, h) ==
  LET F[k \in 0..Len(mws)] == IF k = 0 THEN h ELSE ApplyMiddleware(mws[k], F[k - 1])
  IN  F[Len(mws)]
WrapAll(mws, h) ==
  LET F[i \in 1..(Len(mws) + 1)] ==
        IF i = Len(mws) + 1 THEN h ELSE ApplyMiddleware(mws[i], F[i + 1])
  IN  F[1]

Patterns == {"/a", "/b"}

\* r.mux.Handle(pattern, h): http.ServeMux panics on a pattern registered
\* twice; h has been wrapped by then
MuxHandle(m, pattern, h) ==
  IF pattern \in DOMAIN m
    THEN [panic |-> "multiple registrations", mux |-> m, evals |-> ChainEvals(h)]
    ELSE [panic |-> "none", mux |-> MapPut(m, pattern, h), evals |-> ChainEvals(h)]

\* Router.HandleFunc(pattern, handler)
HandleFuncResult_NoMiddleware(reg, mws, m, pattern, handler) ==
  LET inj == InjectResult(reg, handler)
  IN  IF inj.panic # "none" THEN [panic |-> inj.panic, mux |-> m, evals |-> << >>]
      ELSE MuxHandle(m, pattern, Bare(inj.handler))
HandleFuncResult(reg, mws, m, pattern, handler) ==
  LET inj == InjectResult(reg, handler)
  IN  IF inj.panic # "none" THEN [panic |-> inj.panic, mux |-> m, evals |-> << >>]
      ELSE MuxHandle(m, pattern, WrapAll(mws, Bare(inj.handler)))

\* an http.Handler the program built without Inject
PlainHandler == [fn |-> [kind |-> "handler", in |-> << >>], resolvers |-> << >>]

\* Router.Handle(pattern, h): an http.Handler is taken as it is
HandleResult(reg, mws, m, pattern, h) ==
  IF h = PlainHandler
    THEN MuxHandle(m, pattern, WrapAll(mws, Bare(h)))
    ELSE HandleFuncResult(reg, mws, m, pattern, h)

RouterHandlerFns ==
  { Func(<<ResponseWriter, Request>>), Func(<<ResponseWriter, Request, User>>) }

RouterHandleFunc ==
  \E pattern \in Patterns, handler \in RouterHandlerFns :
    LET res == HandleFuncResult(injectors, middleware, mux, pattern, handler)
    IN  /\ mux' = res.mux
        /\ last' = [op |-> "HandleFunc", pattern |-> pattern, handler |-> handler,
                    evals |-> res.evals, panic |-> res.panic]
        /\ UNCHANGED <<injectors, wrapped, middleware, ctxs>>

RouterHandle ==
  \E pattern \in Patterns, h \in RouterHandlerFns \cup {PlainHandler} :
    LET res == HandleResult(injectors, middleware, mux, pattern, h)
    IN  /\ mux' = res.mux
        /\ last' = [op |-> "Handle", pattern |-> pattern, handler |-> h,
                    evals |-> res.evals, panic |-> res.panic]
        /\ UNCHANGED <<injectors, wrapped, middleware, ctxs>>

\* the innermost handler's ServeHTTP(w, r)
ServeInner(h, w, r) ==
  IF h.inner = PlainHandler
    THEN [panic |-> "none", evals |-> << >>,
          calls |-> << <<Arg(FromWriter, w, r), Arg(FromRequest, w, r)>> >>]
    ELSE Serve(h.inner, w, r)

\* a chain whose middlewares get their parameters resolved on every request
ServeChain_ResolvesPerRequest(h, w, r) ==
  LET res == ServeInner(h, w, r)
  IN  [trace |-> [i \in 1..Len(h.chain) |-> h.chain[i].name],
       received |-> [k \in 1..Len(h.chain) |->
                       [i \in 1..Len(h.chain[k].args) |->
                          IF h.chain[k].args[i].by = "fn"
                            THEN [h.chain[k].args[i] EXCEPT !.req = r]
                            ELSE h.chain[k].args[i]]],
       mwEvals |-> [k \in 1..Len(ChainEvals(h)) |-> [ChainEvals(h)[k] EXCEPT !.req = r]],
       evals |-> res.evals, calls |-> res.calls, panic |-> res.panic]
\* h.ServeHTTP(w, r) of a handler of the mux: the middlewares are entered in
\* the order of the chain, then the innermost handler runs. received lists
\* the parameter values each middleware entered runs with, which are those of
\* its instance; mwEvals lists the injector calls made for middleware
\* parameters during the request: the instances call none.
ServeChain(h, w, r) ==
  LET res == ServeInner(h, w, r)
  IN  [trace |-> [i \in 1..Len(h.chain) |-> h.chain[i].name],
       received |-> [k \in 1..Len(h.chain) |-> h.chain[k].args],
       mwEvals |-> << >>,
       evals |-> res.evals, calls |-> res.calls, panic |-> res.panic]

\* Router.ServeHTTP(w, req): the mux dispatches on the path; a path with no
\* pattern gets the mux's 404 handler
RouterServeHTTP ==
  \E path \in Patterns, w \in Writers, r \in Requests :
    LET res == IF path \in DOMAIN mux
                 THEN ServeChain(mux[path], w, r)
                 ELSE [trace |-> << >>, received |-> << >>, mwEvals |-> << >>,
                       evals |-> << >>, calls |-> << >>, panic |-> "none"]
    IN  /\ last' = [op |-> "ServeHTTP", path |-> path, found |-> path \in DOMAIN mux,
                    w |-> w, r |-> r, trace |-> res.trace,
                    received |-> res.received, mwEvals |-> res.mwEvals,
                    evals |-> res.evals, calls |-> res.calls, panic |-> res.panic]
        /\ UNCHANGED <<injectors, wrapped, middleware, mux, ctxs>>

Init ==
  /\ injectors = << >>
  /\ wrapped = {}
  /\ middleware = << >>
  /\ mux = << >>
  /\ ctxs = << >>
  /\ last = NoOp

Next == RegisterResolver \/ RegisterStatic \/ Inject \/ HandlerFunc

Spec == Init /\ [][Next]_vars

\* the registry of a program that has finished its startup registrations:
\* RegisterStatic[User](1) and RegisterResolver[*User](fn)
Configured ==
  RegisterResolverResult(
    RegisterResolverResult(<< >>, User, StaticFn(User, 1)).injectors,
    PtrUser, UserFn(PtrUser, 1)).injectors

RouterInit ==
  /\ injectors \in {<< >>, Configured}
  /\ wrapped = {}
  /\ middleware = << >>
  /\ mux = << >>
  /\ ctxs = << >>
  /\ last = NoOp

RouterNext == RouterUse \/ RouterHandleFunc \/ RouterHandle \/ RouterServeHTTP

RouterSpec == RouterInit /\ [][RouterNext]_vars

CtxNext == WithValue \/ Use \/ Try

CtxSpec == Init /\ [][CtxNext]_vars
(***************************************************************************)
(* Properties.                                                             *)
(***************************************************************************)
Registering == last.op \in {"RegisterResolver", "RegisterStatic"}

\* C1: a RegisterResolver or RegisterStatic call that finds an entry for its
\* type panics with the duplicate-registration error ("injector already
\* registered for type: ...").
C1_DuplicatePanicsWithDuplicateError ==
  (Registering /\ last.exists) => last.panic = "injector already registered"

\* The part of C1 the code keeps: a registration that finds an entry panics
\* and leaves the registry as it was, and no step changes or removes an entry.
C1_RegistryKeepsFirstEntry ==
  [][ /\ \A t \in DOMAIN injectors : t \in DOMAIN injectors' /\ injectors'[t] = injectors[t]
      /\ (last'.op \in {"RegisterResolver", "RegisterStatic"} /\ last'.exists)
           => (last'.panic # "none" /\ injectors' = injectors) ]_vars

\* C2: Inject of a function with a parameter type that is neither the request
\* nor the response writer type and has no registry entry panics with "no
\* injector" and returns no handler; every handler Inject has returned holds
\* an injector for each such parameter, and no call of one fails on a missing
\* injector, whatever was registered or served in between.
C2_MissingResolverFailsAtWrapTime ==
  /\ (last.op = "Inject" /\ last.fn.kind = "func"
        /\ \E i \in 1..Len(last.fn.in) :
              /\ last.fn.in[i] \notin {Request, ResponseWriter}
              /\ last.fn.in[i] \notin DOMAIN injectors)
       => (last.panic = "no injector" /\ last.handler = NoHandler
           /\ \A h \in wrapped : h.fn # last.fn)
  /\ \A h \in wrapped :
        \A i \in 1..Len(h.resolvers) :
          h.resolvers[i].kind = "injector" => h.resolvers[i].injector # NoInjector
  /\ last.op = "HandlerFunc" => last.panic = "none"

C2_Witness ==
  /\ last.op = "Inject"
  /\ last.panic = "no injector"
  /\ last.fn = Func(<<User, PtrUser>>)
  /\ User \in DOMAIN injectors

RECURSIVE NearestStored(_, _, _)
NearestStored(cs, ctx, T) ==
  IF ctx = Background THEN Background
  ELSE IF cs[ctx].val.type = T THEN ctx
  ELSE NearestStored(cs, cs[ctx].parent, T)

\* the type arguments whose reflect.Type is not nil
Concrete(T) == Kind(T) # "interface"

\* C4: for a type T that is no interface type, Try[T] on the context
\* WithValue[T](ctx, v) returned gives (v, true), and Try[T] on a context with
\* no value of type T stored on its chain gives (zero, false).
C4_TryRoundTrip ==
  (last.op = "Try" /\ Concrete(last.T)) =>
    /\ (last.ctx # Background /\ ctxs[last.ctx].val.type = last.T)
         => (last.panic = "none" /\ last.ok /\ last.val = ctxs[last.ctx].val.val)
    /\ NearestStored(ctxs, last.ctx, last.T) = Background
         => (last.panic = "none" /\ ~last.ok /\ last.val = Zero)

\* C5: Try[T] never panics, for a type T that is no interface type.
C5_TryNeverPanics ==
  (last.op = "Try" /\ Concrete(last.T)) => last.panic = "none"

\* C6: for a type T that is no interface type, Use[T](ctx) panics exactly when
\* no value of type T is stored on the chain of ctx, and otherwise returns the
\* value of type T stored most recently on the chain.
C6_UsePanicsIffAbsent ==
  (last.op = "Use" /\ Concrete(last.T)) =>
    LET n == NearestStored(ctxs, last.ctx, last.T)
    IN  /\ last.panic # "none" <=> n = Background
        /\ n # Background => (last.ok /\ last.val = ctxs[n].val.val)

\* C7: WithValue leaves every lookup on every existing context as it was:
\* after a step that derives a context, Try and Use, for every type, give on
\* each context that existed before what they gave before.
C7_WithValueNonDestructive ==
  [][ ctxs' # ctxs =>
        \A ctx \in 0..Len(ctxs), T \in CtxTypes :
          /\ TryResult(ctxs', ctx, T) = TryResult(ctxs, ctx, T)
          /\ UseResult(ctxs', ctx, T) = UseResult(ctxs, ctx, T) ]_vars

\* WithValue[T](ctx, v) on a derived context ctx has returned ctx2: v is seen
\* through ctx2 and not through ctx
C7_Witness ==
  /\ last.op = "WithValue"
  /\ last.panic = "none"
  /\ last.ctx # Background
  /\ TryResult(ctxs, last.ret, last.T).val = last.val
  /\ TryResult(ctxs, last.ctx, last.T) # TryResult(ctxs, last.ret, last.T)

\* the names of the middlewares of a list, in order
Names(mws) == [i \in 1..Len(mws) |-> mws[i].name]

\* s is an initial part of t
IsPrefix(s, t) == Len(s) <= Len(t) /\ \A i \in 1..Len(s) : s[i] = t[i]

\* C8: a handler registered with HandleFunc or Handle is wrapped so that the
\* middlewares registered before it are entered in registration order, the
\* first registered outermost, and the handler runs after the last of them.
C8_MiddlewareOrder ==
  /\ (last.op \in {"HandleFunc", "Handle"} /\ last.panic = "none")
       => Names(mux[last.pattern].chain) = Names(middleware)
  /\ (last.op = "ServeHTTP" /\ last.found)
       => (IsPrefix(last.trace, Names(middleware)) /\ Len(last.calls) = 1)

C8_Witness ==
  /\ last.op = "ServeHTTP"
  /\ last.found
  /\ Names(middleware) = <<"A", "B">>
  /\ last.trace = <<"A", "B">>
  /\ Len(last.calls) = 1

\* C9 as claimed: a request dispatched to any registered pattern passes
\* through every middleware registered on the router.
C9_EveryMiddlewareOnEveryHandler ==
  (last.op = "ServeHTTP" /\ last.found) => last.trace = Names(middleware)

\* C9 amended: a handler is wrapped, when it is registered, with the
\* middlewares registered on the router before it, and stays as registered: a
\* later Use or registration does not rewrap it, and a request to its pattern
\* passes through exactly the middlewares it was registered with.
C9_MiddlewareAtRegistration ==
  [][ /\ \A p \in DOMAIN mux : p \in DOMAIN mux' /\ mux'[p] = mux[p]
      /\ \A p \in DOMAIN mux' \ DOMAIN mux :
            Names(mux'[p].chain) = Names(middleware)
      /\ (last'.op = "ServeHTTP" /\ last'.found)
           => last'.trace = Names(mux[last'.path].chain) ]_vars

\* a request to a handler that was registered between two calls of Use
C9_Witness ==
  /\ last.op = "ServeHTTP"
  /\ last.found
  /\ Len(last.trace) = 1
  /\ Len(middleware) = 2

\* C10: a call of a handler Inject returned invokes the original function
\* once, with one argument per declared parameter in declared order: the
\* request of the call, the response writer of the call, or the result of the
\* registered resolver of the parameter's type applied to the request of the
\* call; each resolver position is evaluated once, in order.
C10_ArgumentsInDeclaredOrder ==
  last.op = "HandlerFunc" =>
    LET in == last.handler.fn.in
    IN  /\ Len(last.calls) = 1
        /\ Len(last.calls[1]) = Len(in)
        /\ \A i \in 1..Len(in) :
              last.calls[1][i] =
                CASE in[i] = Request ->
                       [type |-> Request, by |-> "request", id |-> 0, req |-> last.r]
                  [] in[i] = ResponseWriter ->
                       [type |-> ResponseWriter, by |-> "writer", id |-> 0, req |-> last.w]
                  [] OTHER ->
                       IF injectors[in[i]].static
                         THEN [type |-> in[i], by |-> "static",
                               id |-> injectors[in[i]].id, req |-> 0]
                         ELSE [type |-> in[i], by |-> "fn",
                               id |-> injectors[in[i]].id, req |-> last.r]
        /\ Len(last.evals) = Cardinality({i \in 1..Len(in) : in[i] \in DOMAIN injectors})
        /\ \A k \in 1..Len(last.evals) :
              /\ last.evals[k].req = last.r
              /\ in[last.evals[k].pos] \in DOMAIN injectors
              /\ \A j \in 1..(k - 1) : last.evals[j].pos < last.evals[k].pos

C10_Witness ==
  /\ last.op = "HandlerFunc"
  /\ last.handler.fn = Func(<<PtrUser, Request, PtrUser>>)
  /\ ~injectors[PtrUser].static
  /\ last.r = 2
  /\ last.w = 1
  /\ Len(last.evals) = 2

PlaceholderEvals(mws) ==
  LET n == Len(mws)
      F[k \in 0..n] ==
        IF k = 0 THEN << >>
        ELSE F[k - 1] \o [i \in 1..Len(mws[n + 1 - k].resolvers) |->
                            [mw |-> mws[n + 1 - k].name, pos |-> i, req |-> dummyReq]]
  IN  F[n]

\* C12: Middleware on a function with a parameter type that has no registry
\* entry panics, and Middleware and Use call no resolver; the resolvers of a
\* middleware's parameters are called, each with the placeholder request,
\* when HandleFunc or Handle applies the middleware to a handler; a request
\* calls no resolver for a middleware parameter, and each middleware it enters
\* runs with the values resolved at that application, none of which comes
\* from a live request.
C12_MiddlewareResolvedWithPlaceholder ==
  /\ (last.op = "Use" /\ last.mw.kind = "mwfunc"
        /\ \E i \in 1..Len(last.mw.in) : last.mw.in[i] \notin DOMAIN injectors)
       => last.panic = "no injector for middleware param"
  /\ last.op = "Use" => last.evals = << >>
  /\ (last.op \in {"HandleFunc", "Handle"}
        /\ last.panic \in {"none", "multiple registrations"})
       => last.evals = PlaceholderEvals(middleware)
  /\ (last.op \in {"HandleFunc", "Handle"} /\ last.panic = "none")
       => \A k \in 1..Len(mux[last.pattern].chain) :
            mux[last.pattern].chain[k].args =
              [i \in 1..Len(middleware[k].resolvers) |->
                 CallFn(middleware[k].resolvers[i], dummyReq)]
  /\ (last.op = "ServeHTTP" /\ last.found)
       => /\ last.mwEvals = << >>
          /\ last.received =
               [k \in 1..Len(mux[last.path].chain) |-> mux[last.path].chain[k].args]
          /\ \A k \in 1..Len(last.received) :
               \A i \in 1..Len(last.received[k]) :
                 last.received[k][i].req \notin Requests

\* a live request passes through an injected middleware whose parameter comes
\* from a per-request resolver
C12_Witness ==
  /\ last.op = "ServeHTTP"
  /\ last.found
  /\ last.r = 2
  /\ \E k \in 1..Len(last.trace) :
        /\ last.trace[k] = "C"
        /\ last.received[k] = <<[type |-> PtrUser, by |-> "fn", id |-> 1, req |-> dummyReq]>>

====
